---- MODULE Spec2Model ----
(***************************************************************************)
(* img-match: pairs the pages of a "new" release of a scanned book with    *)
(* the pages of an "old" release (src/src/main.rs).                        *)
(*                                                                         *)
(* Two specifications share the operators of this module.                  *)
(*   Spec      main from the construction of the index (main.rs:77) to the *)
(*             report, for old directories of up to MaxOld pages.  The     *)
(*             results of the two hash_images calls are the inputs.        *)
(*   SpecHash  main from the hash_images call on the new directory         *)
(*             (main.rs:74) to the report: the rayon fold/reduce of        *)
(*             hash_images step by step, then the same index and matching  *)
(*             steps against a small old directory.                        *)
(*                                                                         *)
(* Fingerprints are bit vectors compared by Hamming distance               *)
(* (ImageHash::dist).  The model takes the four vectors of two bits.       *)
(***************************************************************************)
EXTENDS Integers, Sequences, FiniteSets

VARIABLES
    pc,         \* position in main: "list", "hash", "index", "match", "done", "failed"
    D,          \* opts.distance
    listing,    \* the pages list_pages returned, in read_dir order, until sorted
    kind,       \* what loading each page of the new directory gives
    pages,      \* the sorted page list of hash_images
    segs,       \* the pieces rayon split the page list into, left to right
    full,       \* the short-circuit flag of try_reduce
    splits,     \* how many times the page list was split (history)
    exitErr,    \* the error main returned, <<>> when none
    new,        \* the new-side Vec<HashedImage>
    pos,        \* how many of its images new.into_iter() has yielded
    tree,       \* the BK-tree `hashes`
    nOld,       \* how many old-side images were passed to insert_all
    missing,    \* the `missing` HashSet of old-side filenames
    mapping,    \* the Vec<Match> collected so far
    report      \* what was printed: <<>> or <<lines of PAGE MAPPING, MISSING PAGES>>

vars == <<pc, D, listing, kind, pages, segs, full, splits, exitErr, new, pos,
          tree, nOld, missing, mapping, report>>

hashVars == <<listing, kind, pages, segs, full, splits, exitErr>>

(***************************************************************************)
(* Bounds.                                                                 *)
(***************************************************************************)
MaxOld == 6
MaxNew == 2
MaxD == 1
MaxPages == 3
MaxOldH == 1

\* The divisor of the position penalty.
PenaltyDivisor == 5

\* The fingerprints of the model: bit vectors of width 2.
Hashes == {<<0, 0>>, <<0, 1>>, <<1, 0>>, <<1, 1>>}

\* The fingerprints of the pages of the new directory.
PageHashes == {<<0, 0>>, <<0, 1>>}

Abs(x) == IF x < 0 THEN 0 - x ELSE x

Range(s) == {s[i] : i \in 1..Len(s)}

(***************************************************************************)
(* HashedImage and image_distance.                                         *)
(***************************************************************************)
HashedImage(filename, index, hash) ==
    [filename |-> filename, index |-> index, hash |-> hash]

\* ImageHash::dist: the number of bits that differ.
HashDist(h1, h2) == Cardinality({i \in 1..Len(h1) : h1[i] # h2[i]})

image_distance(img1, img2) == HashDist(img1.hash, img2.hash)

(***************************************************************************)
(* The BK-tree of the bktree crate, as main uses it.  A node is a value    *)
(* with the node it hangs under and its distance to that node; node 1 is   *)
(* the root.                                                               *)
(***************************************************************************)
BkNode(val, parent, k) == [val |-> val, parent |-> parent, k |-> k]

Children(t, u, lo, hi) ==
    {c \in 1..Len(t) : t[c].parent = u /\ t[c].k >= lo /\ t[c].k <= hi}

\* BkTree::insert: walk down by distance; a value at distance 0 of a node
\* on the way is already there and the call returns without storing it.
RECURSIVE InsertAt(_, _, _)
InsertAt(t, u, val) ==
    LET k == image_distance(t[u].val, val)
        v == Children(t, u, k, k)
    IN  IF k = 0 THEN t
        ELSE IF v = {} THEN Append(t, BkNode(val, u, k))
        ELSE InsertAt(t, CHOOSE c \in v : TRUE, val)

insert(t, val) ==
    IF t = <<>> THEN <<BkNode(val, 0, 0)>> ELSE InsertAt(t, 1, val)

\* BkTree::find: the (value, distance) pairs within max_dist of val; under a
\* node at distance d only the children keyed d - max_dist .. d + max_dist
\* are visited.
RECURSIVE FindAt(_, _, _, _)
FindAt(t, u, val, max_dist) ==
    LET d == image_distance(t[u].val, val)
        here == IF d <= max_dist THEN {<<t[u].val, d>>} ELSE {}
    IN  here \cup UNION {FindAt(t, c, val, max_dist) :
                            c \in Children(t, u, d - max_dist, d + max_dist)}

find(t, val, max_dist) ==
    IF t = <<>> THEN {} ELSE FindAt(t, 1, val, max_dist)

\* BkTree::iter: every value stored in the tree.
iter(t) == {t[i].val : i \in 1..Len(t)}

(***************************************************************************)
(* The matching pass of main.                                              *)
(***************************************************************************)
\* The filter of main.rs:96, with no filter at all.
StillMissingOff(m, miss) == TRUE

\* main.rs:96: only keep matching images that have no match yet.
StillMissing(m, miss) == m[1].filename \in miss

\* The key of main.rs:104-107, without the page-number term.
ScoreNoPenalty(m, image) == m[2]

\* main.rs:104-107: the key of min_by_key for the candidate m = (img, dist).
Score(m, image) ==
    m[2] + (Abs(m[1].index - image.index) \div PenaltyDivisor)

\* The removal of main.rs:111, left out.
ClaimOff(miss, filename) == miss

\* main.rs:111: missing.remove(&matching.filename).
Claim(miss, filename) == miss \ {filename}

\* A Match; dst is <<>> for None and <<(image, distance)>> for Some.
Match(src, dst) == [src |-> src, dst |-> dst]

\* The None arm of main.rs:119-124, emitting nothing.
EmitNewOff(image) == <<>>

\* main.rs:119-124: the Match of a page with no counterpart.
EmitNew(image) == <<Match(image, <<>>)>>

\* main.rs:110-116: the Match of a page paired with m = (matching, distance).
EmitMatch(image, m) == <<Match(image, <<m>>)>>

\* main.rs:92-96: the candidates of image.
Candidates(image) ==
    {m \in find(tree, image, D) : StillMissing(m, missing)}

\* One iteration of the closure of main.rs:91-126 on the next new-side image.
\* min_by_key returns the first minimal candidate in the order find yields
\* them; any minimal candidate may be that one.
MatchStep ==
    /\ pc = "match"
    /\ pos < Len(new)
    /\ LET image == new[pos + 1]
           cands == Candidates(image)
       IN  IF cands = {}
           THEN /\ mapping' = mapping \o EmitNew(image)
                /\ missing' = missing
           ELSE \E m \in cands :
                    /\ \A o \in cands : Score(m, image) <= Score(o, image)
                    /\ missing' = Claim(missing, m[1].filename)
                    /\ mapping' = mapping \o EmitMatch(image, m)
    /\ pos' = pos + 1
    /\ UNCHANGED <<pc, D, new, tree, nOld, report>>
    /\ UNCHANGED hashVars

\* main.rs:133-151: one line per Match.
MappingLine(m) ==
    IF m.dst = <<>>
    THEN <<"NEW PAGE", m.src.filename>>
    ELSE <<"MATCH", m.src.filename, m.dst[1][1].filename, m.dst[1][2]>>

\* main.rs:127-159: the mapping is collected, the report printed.
Report ==
    /\ pc = "match"
    /\ pos = Len(new)
    /\ report' = <<[i \in 1..Len(mapping) |-> MappingLine(mapping[i])], missing>>
    /\ pc' = "done"
    /\ UNCHANGED <<D, new, pos, tree, nOld, missing, mapping>>
    /\ UNCHANGED hashVars

(***************************************************************************)
(* The index of the old side.                                              *)
(***************************************************************************)
\* The old-side image of sequence index i: hash_images names it after its
\* file and numbers it by its place in the sorted page list.
OldImage(i, h) == HashedImage(i + 1, i, h)

\* One iteration of insert_all (main.rs:79) on the next image of `old`.
InsertOld(h) ==
    /\ pc = "index"
    /\ tree' = insert(tree, OldImage(nOld, h))
    /\ nOld' = nOld + 1
    /\ UNCHANGED <<pc, D, new, pos, missing, mapping, report>>
    /\ UNCHANGED hashVars

InsertStep == nOld < MaxOld /\ \E h \in Hashes : InsertOld(h)

InsertStepH == nOld < MaxOldH /\ \E h \in Hashes : InsertOld(h)

\* main.rs:83-86: the filenames of the images iter() yields.
MissingInit(t) == {image.filename : image \in iter(t)}

\* insert_all has consumed `old`; `missing` is seeded (main.rs:83-86).
IndexDone ==
    /\ pc = "index"
    /\ missing' = MissingInit(tree)
    /\ pc' = "match"
    /\ UNCHANGED <<D, new, pos, tree, nOld, mapping, report>>
    /\ UNCHANGED hashVars

(***************************************************************************)
(* Spec: main from main.rs:77 on.                                          *)
(***************************************************************************)
\* What hash_images returns for a directory whose pages have the
\* fingerprints hs, in page order.
Hashed(hs) == [i \in 1..Len(hs) |-> HashedImage(i, i - 1, hs[i])]

SeqsUpTo(S, n) == UNION {[1..k -> S] : k \in 0..n}

Init ==
    /\ pc = "index"
    /\ D \in 0..MaxD
    /\ new \in {Hashed(hs) : hs \in SeqsUpTo(PageHashes, MaxNew)}
    /\ pos = 0
    /\ tree = <<>>
    /\ nOld = 0
    /\ missing = {}
    /\ mapping = <<>>
    /\ report = <<>>
    /\ listing = <<>>
    /\ kind = <<>>
    /\ pages = <<>>
    /\ segs = <<>>
    /\ full = FALSE
    /\ splits = 0
    /\ exitErr = <<>>

Next ==
    \/ InsertStep
    \/ IndexDone
    \/ MatchStep
    \/ Report

Spec == Init /\ [][Next]_vars

(***************************************************************************)
(* hash_images on the new directory: the rayon pipeline step by step.      *)
(***************************************************************************)
\* A page of the new directory; file_name() is the last component of path.
Page(name) == [path |-> <<"new", name>>]

file_name(path) == path[2]

\* What loading a page gives: a decoded image with its fingerprint, or the
\* step of the closure that fails.
PageKinds ==
    {[res |-> "ok", hash |-> h] : h \in PageHashes}
        \cup {[res |-> r, hash |-> <<>>] : r \in {"open", "read", "identify", "decode"}}

Failing(r) == r.res # "ok"

\* pages.sort() (main.rs:198): ascending by path.
RECURSIVE InsertSorted(_, _)
InsertSorted(s, p) ==
    IF s = <<>> THEN <<p>>
    ELSE IF file_name(p.path) < file_name(Head(s).path) THEN <<p>> \o s
    ELSE <<Head(s)>> \o InsertSorted(Tail(s), p)

RECURSIVE SortPages(_)
SortPages(s) ==
    IF s = <<>> THEN <<>> ELSE InsertSorted(SortPages(Tail(s)), Head(s))

\* The error the closure returns when a step fails on page (main.rs:207-222):
\* File::open's error goes up as it is, a failed read is given the page's
\* path, a failed identify or decode the page's file name.
PageError(page, r) ==
    CASE r.res = "open" -> [op |-> "open", tag |-> "none", page |-> 0]
      [] r.res = "read" -> [op |-> "read", tag |-> "path", page |-> file_name(page.path)]
      [] r.res = "identify" ->
            [op |-> "identify", tag |-> "filename", page |-> file_name(page.path)]
      [] r.res = "decode" ->
            [op |-> "decode", tag |-> "filename", page |-> file_name(page.path)]

\* The index of a pushed image, taken from how many were pushed before it.
PageIndexArrival(index, acc) == Len(acc)

\* main.rs:232-236: the index of a pushed image is the one enumerate() gave.
PageIndex(index, acc) == index

\* The reduction of main.rs:240-243 with its operands swapped.
ReduceOpSwapped(v1, v2) == v2 \o v1

\* main.rs:240-243: v1.extend(v2).
ReduceOp(v1, v2) == v1 \o v2

\* A piece of the enumerated page list: positions lo .. hi-1 are still to be
\* folded, acc is the Vec pushed so far, err is <<>> or the error it ended on.
Seg(lo, hi, acc, err) == [lo |-> lo, hi |-> hi, acc |-> acc, err |-> err]

SegDone(g) == g.err # <<>> \/ g.lo = g.hi

Replace(s, i, n, r) == SubSeq(s, 1, i - 1) \o r \o SubSeq(s, i + n, Len(s))

\* main.rs:197-202: the pages listed are sorted and moved into the parallel
\* iterator.
ListPages ==
    /\ pc = "list"
    /\ pages' = SortPages(listing)
    /\ listing' = <<>>
    /\ segs' = <<Seg(0, Len(listing), <<>>, <<>>)>>
    /\ pc' = "hash"
    /\ UNCHANGED <<D, kind, full, splits, exitErr, new, pos, tree,
                   nOld, missing, mapping, report>>

\* rayon halves a piece nobody has started on.
Split(i) ==
    /\ pc = "hash"
    /\ LET g == segs[i]
           mid == g.lo + ((g.hi - g.lo) \div 2)
       IN  /\ g.err = <<>>
           /\ g.acc = <<>>
           /\ g.hi - g.lo >= 2
           /\ segs' = Replace(segs, i, 1,
                   <<Seg(g.lo, mid, <<>>, <<>>), Seg(mid, g.hi, <<>>, <<>>)>>)
    /\ splits' = splits + 1
    /\ UNCHANGED <<pc, D, listing, kind, pages, full, exitErr, new, pos, tree,
                   nOld, missing, mapping, report>>

\* The closure of try_fold (main.rs:203-239) on the next page of piece i.
FoldItem(i) ==
    /\ pc = "hash"
    /\ LET g == segs[i]
           index == g.lo
           page == pages[g.lo + 1]
           r == kind[file_name(page.path)]
       IN  /\ ~SegDone(g)
           /\ IF Failing(r)
              THEN /\ segs' = Replace(segs, i, 1,
                           <<Seg(g.lo, g.hi, g.acc, <<PageError(page, r)>>)>>)
                   /\ full' = TRUE
              ELSE /\ segs' = Replace(segs, i, 1,
                           <<Seg(g.lo + 1, g.hi,
                                 Append(g.acc,
                                        HashedImage(file_name(page.path),
                                                    PageIndex(index, g.acc),
                                                    r.hash)),
                                 <<>>)>>)
                   /\ full' = full
    /\ UNCHANGED <<pc, D, listing, kind, pages, splits, exitErr, new, pos, tree,
                   nOld, missing, mapping, report>>

\* Once an error was seen a piece stops taking pages and ends on what it has.
StopEarly(i) ==
    /\ pc = "hash"
    /\ full
    /\ ~SegDone(segs[i])
    /\ segs' = Replace(segs, i, 1,
            <<Seg(segs[i].lo, segs[i].lo, segs[i].acc, <<>>)>>)
    /\ UNCHANGED <<pc, D, listing, kind, pages, full, splits, exitErr, new, pos,
                   tree, nOld, missing, mapping, report>>

\* try_reduce (main.rs:240-243) on two neighbouring finished pieces: the
\* closure on two Ok, else the error of the left piece or else of the right.
Reduce(i) ==
    /\ pc = "hash"
    /\ i < Len(segs)
    /\ LET l == segs[i]
           r == segs[i + 1]
       IN  /\ SegDone(l)
           /\ SegDone(r)
           /\ segs' = Replace(segs, i, 2,
                   <<IF l.err # <<>> THEN Seg(l.hi, l.hi, <<>>, l.err)
                     ELSE IF r.err # <<>> THEN Seg(r.hi, r.hi, <<>>, r.err)
                     ELSE Seg(r.hi, r.hi, ReduceOp(l.acc, r.acc), <<>>)>>)
    /\ UNCHANGED <<pc, D, listing, kind, pages, full, splits, exitErr, new, pos,
                   tree, nOld, missing, mapping, report>>

\* hash_images returns Ok: main goes on with the Vec (main.rs:74-77).
ReturnOk ==
    /\ pc = "hash"
    /\ Len(segs) = 1
    /\ SegDone(segs[1])
    /\ segs[1].err = <<>>
    /\ new' = segs[1].acc
    /\ pc' = "index"
    /\ UNCHANGED <<D, listing, kind, pages, segs, full, splits, exitErr, pos,
                   tree, nOld, missing, mapping, report>>

\* hash_images returns Err: main returns it (main.rs:74-75).
ReturnErr ==
    /\ pc = "hash"
    /\ Len(segs) = 1
    /\ segs[1].err # <<>>
    /\ exitErr' = segs[1].err
    /\ pc' = "failed"
    /\ UNCHANGED <<D, listing, kind, pages, segs, full, splits, new, pos, tree,
                   nOld, missing, mapping, report>>

(***************************************************************************)
(* SpecHash: main from main.rs:74 on.                                      *)
(***************************************************************************)
Orders(n) == {s \in [1..n -> 1..n] : \A i, j \in 1..n : s[i] = s[j] => i = j}

InitHash ==
    /\ pc = "list"
    /\ D \in 0..MaxD
    /\ \E n \in 0..MaxPages :
        /\ listing \in {[i \in 1..n |-> Page(o[i])] : o \in Orders(n)}
        /\ kind \in [1..n -> PageKinds]
    /\ pages = <<>>
    /\ segs = <<>>
    /\ full = FALSE
    /\ splits = 0
    /\ exitErr = <<>>
    /\ new = <<>>
    /\ pos = 0
    /\ tree = <<>>
    /\ nOld = 0
    /\ missing = {}
    /\ mapping = <<>>
    /\ report = <<>>

NextHash ==
    \/ ListPages
    \/ \E i \in 1..Len(segs) : Split(i)
    \/ \E i \in 1..Len(segs) : FoldItem(i)
    \/ \E i \in 1..Len(segs) : StopEarly(i)
    \/ \E i \in 1..Len(segs) : Reduce(i)
    \/ ReturnOk
    \/ ReturnErr
    \/ InsertStepH
    \/ IndexDone
    \/ MatchStep
    \/ Report

SpecHash == InitHash /\ [][NextHash]_vars

(***************************************************************************)
(* Properties.                                                             *)
(***************************************************************************)
\* The filenames of the images passed to insert_all.
OldNames == {i + 1 : i \in 0..(nOld - 1)}

Matched(i) == mapping[i].dst # <<>>

DstImage(i) == mapping[i].dst[1][1]

DstDistance(i) == mapping[i].dst[1][2]

\* The old-side filenames the first k Matches have as dst.
Claimed(k) == {DstImage(i).filename : i \in {j \in 1..k : Matched(j)}}

\* The missing set when the i-th new-side image is processed.
MissingBefore(i) == MissingInit(tree) \ Claimed(i - 1)

Within(n, o) == image_distance(n, o) <= D

CombinedScore(n, o) ==
    image_distance(n, o) + (Abs(o.index - n.index) \div PenaltyDivisor)

\* C1: no old-side filename is the dst of more than one emitted Match, after
\* every prefix of the new-side sequence.
C1_InjectiveOnOld ==
    \A i, j \in 1..Len(mapping) :
        (i # j /\ Matched(i) /\ Matched(j))
            => DstImage(i).filename # DstImage(j).filename

\* A later new-side image is within D of an old image an earlier one claimed.
C1_Witness ==
    \E i, j \in 1..Len(mapping) :
        /\ i < j
        /\ Matched(i)
        /\ Within(mapping[j].src, DstImage(i))

\* C2: during and after the matching pass the missing set is the old-side
\* filenames minus the filenames claimed so far, and MISSING PAGES prints
\* exactly the old-side filenames never claimed.
C2_MissingIsOldMinusClaimed ==
    /\ pc \in {"match", "done"} => missing = OldNames \ Claimed(Len(mapping))
    /\ pc = "done" => report[2] = OldNames \ Claimed(Len(mapping))

\* C3: one Match per new-side image, with that image as src, in the order of
\* the new-side sequence, and PAGE MAPPING prints them in that order.
C3_TotalOnNew ==
    /\ Len(mapping) = pos
    /\ \A i \in 1..Len(mapping) : i <= Len(new) /\ mapping[i].src = new[i]
    /\ pc = "done" =>
        /\ Len(mapping) = Len(new)
        /\ Len(report[1]) = Len(new)
        /\ \A i \in 1..Len(new) :
            /\ report[1][i][2] = new[i].filename
            /\ report[1][i][1] = (IF Matched(i) THEN "MATCH" ELSE "NEW PAGE")

\* The report of a run with a new page followed by a matched page.
C3_Witness ==
    /\ pc = "done"
    /\ Len(new) = 2
    /\ ~Matched(1)
    /\ Matched(2)

\* C4: a matched old image is an old image within D of the new image and in
\* the missing set when the new image is processed, with the least
\* distance + floor(|old.index - new.index| / 5) among those; the integer of
\* the Match is the fingerprint distance of the pair and is at most D.
C4_BestCandidate ==
    [][(Len(mapping') = Len(mapping) + 1 /\ mapping'[Len(mapping')].dst # <<>>)
        => LET n == mapping'[Len(mapping')].src
               w == mapping'[Len(mapping')].dst[1][1]
               d == mapping'[Len(mapping')].dst[1][2]
           IN  /\ w \in iter(tree)
               /\ w.filename \in missing
               /\ d = image_distance(n, w)
               /\ d <= D
               /\ \A o \in iter(tree) :
                    (o.filename \in missing /\ Within(n, o))
                        => CombinedScore(n, w) <= CombinedScore(n, o)]_vars

\* A match won on the position penalty: another candidate was as close in
\* fingerprint and farther in page number.
C4_Witness ==
    \E i \in 1..Len(mapping) :
        /\ Matched(i)
        /\ \E o \in iter(tree) :
            /\ o.filename \in MissingBefore(i)
            /\ image_distance(mapping[i].src, o) = DstDistance(i)
            /\ CombinedScore(mapping[i].src, DstImage(i))
                    < CombinedScore(mapping[i].src, o)

\* The new-side images i and j, and no other, are within D of the old image
\* o, and of no other old image.
TwoOnOne(i, j, o) ==
    /\ i # j
    /\ Within(new[i], o)
    /\ Within(new[j], o)
    /\ \A x \in iter(tree) : (Within(new[i], x) \/ Within(new[j], x)) => x = o
    /\ \A k \in 1..Len(new) : Within(new[k], o) => k \in {i, j}

\* C5 as claimed: of two new-side images within D of the same single old
\* image, the one with the lower combined score claims it and the other is a
\* NEW PAGE, whichever comes first.
C5_LowerScoreClaims ==
    pc = "done" =>
        \A i, j \in 1..Len(new) : \A o \in iter(tree) :
            (TwoOnOne(i, j, o) /\ CombinedScore(new[i], o) < CombinedScore(new[j], o))
                => (Matched(i) /\ DstImage(i) = o /\ ~Matched(j))

\* C5 as amended: of two new-side images within D of the same single old
\* image, the one that comes first in the new-side sequence claims it and
\* the other is a NEW PAGE, whatever their combined scores.
C5_FirstClaims ==
    pc = "done" =>
        \A i, j \in 1..Len(new) : \A o \in iter(tree) :
            (TwoOnOne(i, j, o) /\ i < j)
                => (Matched(i) /\ DstImage(i) = o /\ ~Matched(j))

\* The first of the two claimed the old image with the higher combined score.
C5_Witness ==
    /\ pc = "done"
    /\ \E i, j \in 1..Len(new) : \E o \in iter(tree) :
        /\ TwoOnOne(i, j, o)
        /\ i < j
        /\ CombinedScore(new[i], o) > CombinedScore(new[j], o)
        /\ Matched(i)
        /\ DstImage(i) = o

\* A new-side image is a NEW PAGE exactly when no old image within D of it
\* is in the missing set when it is processed.
NewIffNoCandidate ==
    \A i \in 1..Len(mapping) :
        ~Matched(i) <=>
            ~\E o \in iter(tree) :
                o.filename \in MissingBefore(i) /\ Within(mapping[i].src, o)

\* With D = 0 and no new-side fingerprint equal to an old-side one, every
\* new page is NEW and every old page is MISSING.
NothingInCommon ==
    (/\ pc = "done"
     /\ D = 0
     /\ \A i \in 1..Len(new) : \A o \in iter(tree) : new[i].hash # o.hash)
        => /\ \A i \in 1..Len(mapping) : ~Matched(i)
           /\ report[2] = OldNames

\* C6: NEW PAGE exactly when no old image within D (inclusive) is still in
\* the missing set; with D = 0 and no fingerprint in common every new page is
\* NEW and every old page MISSING.
C6_NewPageRule == NewIffNoCandidate /\ NothingInCommon

\* C7: before the first new-side image is processed the missing set holds
\* the filename of every image passed to insert_all, and the index yields
\* every one of them, pages of identical fingerprint included.
C7_AllOldInMissing ==
    (pc = "match" /\ pos = 0)
        => /\ missing = OldNames
           /\ {image.filename : image \in iter(tree)} = OldNames

\* The (filename, sequence index, fingerprint) triples of the pages of the
\* new directory: the sequence index of a page is its rank by path.
PageNames == DOMAIN kind

Rank(name) == Cardinality({q \in PageNames : q < name})

Triples == {HashedImage(name, Rank(name), kind[name].hash) : name \in PageNames}

Returned == pc \in {"index", "match", "done"}

\* C8: whatever the split of the page list and the order the pieces are
\* folded and reduced in, hash_images returns the same multiset of triples,
\* each page with its rank in the sorted page list as sequence index.
C8_SameTriples ==
    Returned => (Len(new) = Cardinality(Triples) /\ Range(new) = Triples)

\* hash_images returned three pages after splitting the page list twice.
C8_Witness ==
    /\ Returned
    /\ splits >= 2
    /\ Len(new) >= 3

\* Nothing is used of a directory with a failing page: no mapping, no report.
FailFast ==
    /\ (\E name \in PageNames : Failing(kind[name])) => ~Returned
    /\ pc = "failed" => (exitErr # <<>> /\ mapping = <<>> /\ report = <<>>)

\* The error names a page that failed.
ErrorNamesPage ==
    pc = "failed" =>
        /\ exitErr[1].tag \in {"path", "filename"}
        /\ exitErr[1].page \in PageNames
        /\ Failing(kind[exitErr[1].page])

\* C9: a failing page makes hash_images return an error and nothing else,
\* and the error is tagged with the page that failed, whatever step failed.
C9_FailFastTagged == FailFast /\ ErrorNamesPage

\* C10: the Vec hash_images returns is in ascending sequence index, and the
\* matching pass takes the new-side images in that order, whatever the split
\* and the order of the fold and the reduce.
C10_AscendingOrder ==
    /\ Returned => \A i \in 1..Len(new) : new[i].index = i - 1
    /\ \A i \in 1..Len(mapping) : mapping[i].src.index = i - 1

\* Three pages went through the matching pass after two splits.
C10_Witness ==
    /\ pc = "done"
    /\ splits >= 2
    /\ Len(mapping) >= 3

====
